---- MODULE Spec2Model ----
(***************************************************************************)
(* GoldenMerchant: the arbitrage discovery engine.                         *)
(*                                                                         *)
(*   graph.py  PriceDataGraph.build_graph / find_cyclic_paths              *)
(*   main.py   PriceData.fetch_orderbooks / get_all_routes /               *)
(*             calculate_arbitrage_routes                                  *)
(*                                                                         *)
(* Prices and amounts are Python floats in the source.  They are modelled  *)
(* as exact rationals <<n, d>> (d > 0, lowest terms); fee and slippage are *)
(* rates given in percent, so 1 + fee is (100 + fee) / 100.                *)
(***************************************************************************)
EXTENDS Integers, Sequences, FiniteSets, TLC

\* ------------------------------------------------------------------ bounds
MaxSymbols == 2
MaxNBest == 2
MaxDepth == 2

\* ---------------------------------------------------------------- rationals
RECURSIVE Gcd(_, _)
Gcd(a, b) == IF b = 0 THEN a ELSE Gcd(b, a % b)

Abs(x) == IF x < 0 THEN -x ELSE x

\* n/d in lowest terms with a positive denominator (d # 0)
Rat(n, d) ==
    LET g == Gcd(Abs(n), Abs(d))
        s == IF d < 0 THEN -1 ELSE 1
    IN  <<(s * n) \div g, (s * d) \div g>>

RInt(n) == <<n, 1>>
RMul(x, y) == Rat(x[1] * y[1], x[2] * y[2])
RDiv(x, y) == Rat(x[1] * y[2], x[2] * y[1])
RSub(x, y) == Rat(x[1] * y[2] - y[1] * x[2], x[2] * y[2])
RLeq(x, y) == x[1] * y[2] <= y[1] * x[2]
RPos(x) == x[1] > 0

\* ------------------------------------------------------------- ordered dict
\* A Python dict keeps insertion order: a sequence of <<key, value>> pairs.
DictHas(d, k) == \E i \in 1..Len(d) : d[i][1] = k
DictGet(d, k) == d[CHOOSE i \in 1..Len(d) : d[i][1] = k][2]
DictSet(d, k, v) ==
    IF DictHas(d, k)
    THEN [i \in 1..Len(d) |-> IF d[i][1] = k THEN <<k, v>> ELSE d[i]]
    ELSE Append(d, <<k, v>>)

\* ------------------------------------------------------------------ inputs
Currencies == {"USDT", "BTC", "ETH"}
ExchangeIds == <<"kucoin", "phemex">>

\* "BASE/QUOTE"; symbol.split("/") reads the two fields
Symbol(b, q) == [base |-> b, quote |-> q]
Symbols == {Symbol(p[1], p[2]) : p \in {c \in Currencies \X Currencies : c[1] # c[2]}}

RECURSIVE SeqsUpTo(_, _)
SeqsUpTo(S, n) ==
    IF n = 0 THEN {<<>>}
    ELSE LET shorter == SeqsUpTo(S, n - 1)
         IN  shorter \cup {Append(s, x) : s \in {t \in shorter : Len(t) = n - 1}, x \in S}

Distinct(s) == \A i, j \in 1..Len(s) : i # j => s[i] # s[j]

\* the symbols lists a caller declares: pairwise distinct pairs
SymbolLists == {s \in SeqsUpTo(Symbols, MaxSymbols) : Len(s) >= 1 /\ Distinct(s)}

\* itertools.product(exchange_ids, symbols)
Product(xs, ys) ==
    [k \in 1..(Len(xs) * Len(ys)) |->
        <<xs[((k - 1) \div Len(ys)) + 1], ys[((k - 1) % Len(ys)) + 1]>>]

\* What exchange.fetch_order_book can answer: an exception, or a book whose
\* sides are price levels <<price, size>>, best first.
FetchFailed == [failed |-> TRUE, bids |-> <<>>, asks |-> <<>>]
Book(bids, asks) == [failed |-> FALSE, bids |-> bids, asks |-> asks]

RatePcts == {0, 10}

Take(s, n) == SubSeq(s, 1, IF n < Len(s) THEN n ELSE Len(s))

\* the snapshots of the build specification: a healthy two-level book (one
\* level when n_best = 1), an empty side, a side of zero total size, a side
\* priced at zero
BuildOutcomes ==
    { FetchFailed,
      Book(<<<<3, 1>>, <<2, 2>>>>, <<<<3, 1>>, <<4, 1>>>>),
      Book(<<>>, <<<<3, 2>>>>),
      Book(<<<<2, 1>>>>, <<<<3, 0>>>>),
      Book(<<<<0, 1>>>>, <<<<3, 2>>>>),
      Book(<<<<2, 1>>>>, <<<<0, 1>>>>) }

\* the snapshots of the constructor's build: a fetch failure, a healthy book
\* and a book without bids
ConstructOutcomes ==
    { FetchFailed,
      Book(<<<<3, 1>>, <<2, 2>>>>, <<<<3, 1>>, <<4, 1>>>>),
      Book(<<>>, <<<<3, 2>>>>) }

\* the snapshots of the cycle-search specification: prices play no part there
CycleOutcomes == { FetchFailed, Book(<<<<2, 1>>>>, <<<<3, 2>>>>) }

\* ------------------------------------------------------------------- state
VARIABLES
    symbols,          \* self.symbols
    exchanges,        \* keys of self.exchanges, the exchanges that initialised
    market,           \* what fetch_order_book answers for (exchange, symbol)
    n_best, transaction_fee, slippage,     \* arguments of build_graph
    graph,            \* the nested dict build_graph fills
    idx,              \* position of the build loop in self.exchange_symbols
    log,              \* one entry per pair the loop has dealt with
    pc,
    start_currency, max_depth,             \* arguments of find_cyclic_paths
    stack,            \* dfs activation records, innermost last
    visited, paths,   \* the closure variables of dfs
    orderbooks,       \* fetch_orderbooks' result list
    fetch_idx,        \* position of the fetch loops
    routes,           \* get_all_routes' result
    route_idx,        \* position of the loop over routes
    evaluated,        \* per route evaluated: trades, min_trade_amount, profit
    profitable_arbitrage_routes,
    nodes,            \* build_edges' dict of Node references by key
    edges,            \* build_edges' list of Edge references
    node_objects,     \* the Node objects created so far; a reference is a place here
    edge_objects      \* the Edge objects created so far

buildVars == <<symbols, exchanges, market, n_best, transaction_fee, slippage, graph, idx, log>>
dfsVars == <<start_currency, max_depth, stack, visited, paths>>
arbVars == <<orderbooks, fetch_idx, routes, route_idx, evaluated, profitable_arbitrage_routes>>
edgeVars == <<nodes, edges, node_objects, edge_objects>>
vars == <<buildVars, dfsVars, arbVars, edgeVars, pc>>

exchange_symbols == Product(ExchangeIds, symbols)

\* --------------------------------------------------- graph.py: build_graph
RECURSIVE WeightedSum(_)
WeightedSum(levels) ==
    IF levels = <<>> THEN 0
    ELSE levels[1][1] * levels[1][2] + WeightedSum(Tail(levels))

RECURSIVE SumSize(_)
SumSize(levels) ==
    IF levels = <<>> THEN 0 ELSE levels[1][2] + SumSize(Tail(levels))

\* bid_price *= 1 + transaction_fee; bid_price *= 1 - slippage
AdjustBid(price, fee, slip) ==
    RMul(RMul(price, Rat(100 + fee, 100)), Rat(100 - slip, 100))

\* ask_price *= 1 - transaction_fee; ask_price *= 1 + slippage
AdjustAsk(price, fee, slip) ==
    RMul(RMul(price, Rat(100 - fee, 100)), Rat(100 + slip, 100))

\* math.log raises ValueError unless its argument is positive
LogDefined(price) == RPos(price)

BidTrade(exchange_id, bid_price, bid_volume) ==
    [exchange |-> exchange_id, rate |-> <<"-log", bid_price>>, amount |-> bid_volume,
     type |-> "bid", price |-> bid_price]

AskTrade(exchange_id, ask_price, ask_volume) ==
    [exchange |-> exchange_id, rate |-> <<"log", ask_price>>, amount |-> ask_volume,
     type |-> "ask", price |-> ask_price]

\* if k not in d: d[k] = v
SetDefault(d, k, v) == IF DictHas(d, k) THEN d ELSE DictSet(d, k, v)

\* lines 94-103: the keys of both currencies and the two empty edge lists
WithKeys(g, base, quote) ==
    LET g1 == SetDefault(g, base, <<>>)
        g2 == SetDefault(g1, quote, <<>>)
        g3 == DictSet(g2, base, SetDefault(DictGet(g2, base), quote, <<>>))
    IN  DictSet(g3, quote, SetDefault(DictGet(g3, quote), base, <<>>))

\* graph[src][dst].append(trade)
AppendTrade(g, src, dst, trade) ==
    DictSet(g, src, DictSet(DictGet(g, src), dst, Append(DictGet(DictGet(g, src), dst), trade)))

\* The try block of one loop iteration.  error names the exception raised
\* ("none" when the block ran to its end); graph is the dict as the block
\* left it at that point.
TryBlock(g, exchange_id, symbol, orderbook, nb, fee, slip) ==
    IF orderbook.failed THEN [graph |-> g, error |-> "FetchError"]
    ELSE
    LET bids == Take(orderbook.bids, nb)
        asks == Take(orderbook.asks, nb)
        base == symbol.base
        quote == symbol.quote
    IN  IF SumSize(bids) = 0 \/ SumSize(asks) = 0
        THEN [graph |-> g, error |-> "ZeroDivisionError"]
        ELSE
        LET bid_price == AdjustBid(Rat(WeightedSum(bids), SumSize(bids)), fee, slip)
            ask_price == AdjustAsk(Rat(WeightedSum(asks), SumSize(asks)), fee, slip)
            bid_volume == SumSize(bids)
            ask_volume == SumSize(asks)
            keyed == WithKeys(g, base, quote)
            withBid == AppendTrade(keyed, base, quote, BidTrade(exchange_id, bid_price, bid_volume))
            withAsk == AppendTrade(withBid, quote, base, AskTrade(exchange_id, ask_price, ask_volume))
        IN  IF ~LogDefined(bid_price) THEN [graph |-> keyed, error |-> "ValueError"]
            ELSE IF ~LogDefined(ask_price) THEN [graph |-> withBid, error |-> "ValueError"]
            ELSE [graph |-> withAsk, error |-> "none"]

\* a handler that names one exception type only
CaughtValueErrorOnly(error) == error = "ValueError"

\* except Exception: every exception of the try block is caught and printed
Caught(error) == TRUE

\* One iteration of the loop over self.exchange_symbols (lines 62-127).
BuildStep ==
    /\ pc = "build"
    /\ idx <= Len(exchange_symbols)
    /\ LET exchange_id == exchange_symbols[idx][1]
           symbol == exchange_symbols[idx][2]
       IN  IF exchange_id \notin exchanges
           THEN /\ log' = Append(log, "not_initialized")
                /\ UNCHANGED <<graph, pc>>
           ELSE LET r == TryBlock(graph, exchange_id, symbol, market[<<exchange_id, symbol>>],
                                  n_best, transaction_fee, slippage)
                IN  /\ graph' = r.graph
                    /\ log' = Append(log, r.error)
                    /\ pc' = IF r.error = "none" \/ Caught(r.error) THEN pc ELSE "aborted"
    /\ idx' = idx + 1
    /\ UNCHANGED <<symbols, exchanges, market, n_best, transaction_fee, slippage>>
    /\ UNCHANGED <<dfsVars, arbVars>>
    /\ UNCHANGED edgeVars

\* return graph (line 129)
BuildReturn ==
    /\ pc = "build"
    /\ idx > Len(exchange_symbols)
    /\ pc' = "built"
    /\ UNCHANGED <<buildVars, dfsVars, arbVars>>
    /\ UNCHANGED edgeVars

NoDfs ==
    /\ start_currency = "USDT" /\ max_depth = 0
    /\ stack = <<>> /\ visited = {} /\ paths = <<>>

NoArb ==
    /\ orderbooks = <<>> /\ fetch_idx = 1 /\ routes = <<>> /\ route_idx = 1
    /\ evaluated = <<>> /\ profitable_arbitrage_routes = <<>>

NoEdges ==
    /\ nodes = <<>> /\ edges = <<>> /\ node_objects = <<>> /\ edge_objects = <<>>

\* symbols lists whose first pair is BTC/USDT (graph.py line 174); the other
\* choices of a first pair are renamings of the currencies
BuildSymbolLists == {s \in SymbolLists : s[1] = Symbol("BTC", "USDT")}

Range(s) == {s[i] : i \in 1..Len(s)}

\* fetch answers: those of the first exchange that initialised come from
\* primary, those of the exchanges after it from secondary; an exchange that
\* did not initialise is never asked
Markets(syms, exs, primary, secondary) ==
    LET first == SelectSeq(ExchangeIds, LAMBDA e : e \in exs)[1]
    IN  {m \in [Range(ExchangeIds) \X Range(syms) -> primary \cup secondary \cup {FetchFailed}] :
            \A p \in DOMAIN m :
                m[p] \in IF p[1] \notin exs THEN {FetchFailed}
                         ELSE IF p[1] = first THEN primary
                         ELSE secondary}

InitBuild ==
    /\ symbols \in BuildSymbolLists
    /\ exchanges \in SUBSET Range(ExchangeIds)
    /\ market \in Markets(symbols, exchanges, BuildOutcomes, BuildOutcomes)
    /\ n_best \in 1..MaxNBest
    /\ transaction_fee \in RatePcts
    /\ slippage \in RatePcts
    /\ graph = <<>>
    /\ idx = 1
    /\ log = <<>>
    /\ pc = "build"
    /\ NoDfs
    /\ NoArb
    /\ NoEdges

NextBuild == BuildStep \/ BuildReturn

SpecBuild == InitBuild /\ [][NextBuild]_vars

\* PriceDataGraph.__init__ (line 43): self.build_graph(n_best=n_best), with
\* the default transaction_fee and slippage
InitConstruct ==
    /\ symbols \in BuildSymbolLists
    /\ exchanges \in SUBSET Range(ExchangeIds)
    /\ market \in Markets(symbols, exchanges, ConstructOutcomes, ConstructOutcomes)
    /\ n_best \in 1..MaxNBest
    /\ transaction_fee = 0
    /\ slippage = 0
    /\ graph = <<>>
    /\ idx = 1
    /\ log = <<>>
    /\ pc = "build"
    /\ NoDfs
    /\ NoArb
    /\ NoEdges

SpecConstruct == InitConstruct /\ [][NextBuild]_vars

\* ---------------------------------------------- graph.py: find_cyclic_paths
MaxCycleSymbols == 2

\* for next_currency, trades in self.graph[currency].items(): for trade in
\* trades: the pairs <<next_currency, trade>> in the order the loops visit them
\* one trade for each next_currency, the first of its list
ItemsFirstTradeOnly(inner) ==
    LET filled == SelectSeq(inner, LAMBDA item : item[2] # <<>>)
    IN  [k \in 1..Len(filled) |-> <<filled[k][1], filled[k][2][1]>>]

\* the next currencies taken from the last one back to the first
RECURSIVE ItemsLastFirst(_)
ItemsLastFirst(inner) ==
    IF inner = <<>> THEN <<>>
    ELSE ItemsLastFirst(Tail(inner))
         \o [k \in 1..Len(inner[1][2]) |-> <<inner[1][1], inner[1][2][k]>>]

RECURSIVE Items(_)
Items(inner) ==
    IF inner = <<>> THEN <<>>
    ELSE [k \in 1..Len(inner[1][2]) |-> <<inner[1][1], inner[1][2][k]>>] \o Items(Tail(inner))

\* {"source_currency": currency, "destination_currency": next_currency, **trade}
TradeWithCurrencies(currency, next_currency, trade) ==
    [source_currency |-> currency, destination_currency |-> next_currency,
     exchange |-> trade.exchange, rate |-> trade.rate, amount |-> trade.amount,
     type |-> trade.type, price |-> trade.price]

\* an activation of dfs(currency, current_path, depth); pos is the place of
\* its loops in Items(self.graph[currency])
Frame(currency, current_path, depth) ==
    [currency |-> currency, current_path |-> current_path, depth |-> depth, pos |-> 1]

Top == stack[Len(stack)]

Advance(stk) == [stk EXCEPT ![Len(stk)].pos = @ + 1]

\* the depth test one call too late
DepthExhaustedLate(depth) == depth = -1

\* if depth == 0: return
DepthExhausted(depth) == depth = 0

\* the loops of the innermost activation have a pair left to look at
Looping ==
    /\ pc = "dfs"
    /\ ~DepthExhausted(Top.depth)
    /\ DictHas(graph, Top.currency)
    /\ Top.pos <= Len(Items(DictGet(graph, Top.currency)))

NextCurrency == Items(DictGet(graph, Top.currency))[Top.pos][1]
NextTrade == Items(DictGet(graph, Top.currency))[Top.pos][2]

\* paths = []; visited = set([start_currency]); dfs(start_currency, [], max_depth)
\* self.graph is the graph __init__ built (line 43), without fee or slippage.
FindCyclicPaths ==
    /\ pc = "built"
    /\ transaction_fee = 0 /\ slippage = 0
    /\ \E c \in Currencies, d \in (-1)..MaxDepth :
        /\ start_currency' = c
        /\ max_depth' = d
        /\ stack' = <<Frame(c, <<>>, d)>>
        /\ visited' = {c}
    /\ paths' = <<>>
    /\ pc' = "dfs"
    /\ UNCHANGED <<buildVars, arbVars>>
    /\ UNCHANGED edgeVars

\* self.graph[currency] of a currency that is no key of the graph: KeyError
DfsKeyError ==
    /\ pc = "dfs"
    /\ ~DepthExhausted(Top.depth)
    /\ ~DictHas(graph, Top.currency)
    /\ pc' = "raised"
    /\ UNCHANGED <<buildVars, dfsVars, arbVars>>
    /\ UNCHANGED edgeVars

\* if next_currency == start_currency: paths.append(current_path + [trade])
ClosesCycle(next_currency) == next_currency = start_currency

DfsEmit ==
    /\ Looping
    /\ ClosesCycle(NextCurrency)
    /\ paths' = Append(paths,
           Append(Top.current_path, TradeWithCurrencies(Top.currency, NextCurrency, NextTrade)))
    /\ stack' = Advance(stack)
    /\ UNCHANGED <<buildVars, arbVars, start_currency, max_depth, visited, pc>>
    /\ UNCHANGED edgeVars

\* the no-revisit rule switched off
MayVisitAlways(next_currency) == TRUE

\* elif next_currency not in visited
MayVisit(next_currency) == next_currency \notin visited

\* visited.add(next_currency); dfs(next_currency, current_path + [trade], depth - 1)
DfsDescend ==
    /\ Looping
    /\ ~ClosesCycle(NextCurrency)
    /\ MayVisit(NextCurrency)
    /\ visited' = visited \cup {NextCurrency}
    /\ stack' = Append(stack,
           Frame(NextCurrency,
                 Append(Top.current_path, TradeWithCurrencies(Top.currency, NextCurrency, NextTrade)),
                 Top.depth - 1))
    /\ UNCHANGED <<buildVars, arbVars, start_currency, max_depth, paths, pc>>
    /\ UNCHANGED edgeVars

\* neither branch: the loop goes on to the next trade
DfsSkip ==
    /\ Looping
    /\ ~ClosesCycle(NextCurrency)
    /\ ~MayVisit(NextCurrency)
    /\ stack' = Advance(stack)
    /\ UNCHANGED <<buildVars, arbVars, start_currency, max_depth, visited, paths, pc>>
    /\ UNCHANGED edgeVars

\* dfs returns (depth == 0, or its loops are over); the caller removes the
\* currency from visited and goes on; the outermost return ends
\* find_cyclic_paths with return paths
DfsReturn ==
    /\ pc = "dfs"
    /\ \/ DepthExhausted(Top.depth)
       \/ /\ DictHas(graph, Top.currency)
          /\ Top.pos > Len(Items(DictGet(graph, Top.currency)))
    /\ IF Len(stack) = 1
       THEN /\ stack' = <<>>
            /\ pc' = "returned"
            /\ UNCHANGED visited
       ELSE /\ stack' = Advance(SubSeq(stack, 1, Len(stack) - 1))
            /\ visited' = visited \ {Top.currency}
            /\ UNCHANGED pc
    /\ UNCHANGED <<buildVars, arbVars, start_currency, max_depth, paths>>
    /\ UNCHANGED edgeVars

CycleSymbolLists ==
    {s \in SeqsUpTo(Symbols, MaxCycleSymbols) :
        Len(s) >= 1 /\ Distinct(s) /\ s[1] = Symbol("BTC", "USDT")}

InitCycles ==
    /\ symbols \in CycleSymbolLists
    /\ exchanges \in SUBSET Range(ExchangeIds)
    /\ market \in Markets(symbols, exchanges, CycleOutcomes, CycleOutcomes)
    /\ n_best = 1
    /\ transaction_fee = 0
    /\ slippage = 0
    /\ graph = <<>>
    /\ idx = 1
    /\ log = <<>>
    /\ pc = "build"
    /\ NoDfs
    /\ NoArb
    /\ NoEdges

NextCycles ==
    \/ BuildStep
    \/ BuildReturn
    \/ FindCyclicPaths
    \/ DfsKeyError
    \/ DfsEmit
    \/ DfsDescend
    \/ DfsSkip
    \/ DfsReturn

SpecCycles == InitCycles /\ [][NextCycles]_vars

\* the steps of a running dfs
Dfs == DfsKeyError \/ DfsEmit \/ DfsDescend \/ DfsSkip \/ DfsReturn

\* the interpreter runs the one thread of the program: a step of dfs that can
\* be taken is taken
SpecCyclesFair == SpecCycles /\ WF_vars(Dfs)

\* ------------------------------------------------------- main.py: PriceData
\* the exchanges that initialised, the last of exchange_ids first
ExchangeListReversed ==
    LET kept == SelectSeq(ExchangeIds, LAMBDA e : e \in exchanges)
    IN  [i \in 1..Len(kept) |-> kept[Len(kept) + 1 - i]]

\* self.exchanges is a dict filled in the order of exchange_ids
ExchangeList == SelectSeq(ExchangeIds, LAMBDA e : e \in exchanges)

\* the snapshots of the arbitrage specification: best prices one step apart,
\* so that a purchase at 201 meets a sale at 201 or at 202; the second book
\* has a worse level behind the best one on each side
ArbOutcomes ==
    { FetchFailed,
      Book(<<<<202, 1>>>>, <<<<201, 2>>>>),
      Book(<<<<201, 2>>, <<200, 5>>>>, <<<<202, 1>>, <<203, 5>>>>) }

\* the snapshots of the exchanges after the first
SecondaryOutcomes ==
    { FetchFailed, Book(<<<<201, 2>>, <<200, 5>>>>, <<<<202, 1>>, <<203, 5>>>>) }

\* the loops of fetch_orderbooks: for symbol in self.symbols: for exchange_id
\* in self.exchanges
fetch_pairs == Product(symbols, ExchangeList)

\* One iteration of fetch_orderbooks (lines 100-118): the book is appended,
\* or the exception is printed and the loop continues.  The timestamp of an
\* entry is left out.
FetchOrderbook ==
    /\ pc = "fetch"
    /\ fetch_idx <= Len(fetch_pairs)
    /\ LET symbol == fetch_pairs[fetch_idx][1]
           exchange_id == fetch_pairs[fetch_idx][2]
           orderbook == market[<<exchange_id, symbol>>]
       IN  orderbooks' =
               IF orderbook.failed THEN orderbooks
               ELSE Append(orderbooks,
                        [symbol |-> symbol, exchange_id |-> exchange_id,
                         order_book |-> [bids |-> orderbook.bids, asks |-> orderbook.asks]])
    /\ fetch_idx' = fetch_idx + 1
    /\ UNCHANGED <<buildVars, dfsVars, routes, route_idx, evaluated,
                   profitable_arbitrage_routes, pc>>
    /\ UNCHANGED edgeVars

\* get_reversed_symbols: f"{quote}/{base}"
Reversed(symbol) == Symbol(symbol.quote, symbol.base)
ReversedSymbols(syms) == [i \in 1..Len(syms) |-> Reversed(syms[i])]

\* itertools.permutations(pool, r): the r-tuples of distinct positions of
\* pool, in lexicographic order of the positions
RECURSIVE PermsFrom(_, _, _), PermsTry(_, _, _, _)
PermsTry(prefix, i, m, r) ==
    IF i > m THEN <<>>
    ELSE (IF i \in Range(prefix) THEN <<>> ELSE PermsFrom(Append(prefix, i), m, r))
         \o PermsTry(prefix, i + 1, m, r)
PermsFrom(prefix, m, r) ==
    IF Len(prefix) = r THEN <<prefix>> ELSE PermsTry(prefix, 1, m, r)

permutations(pool, r) ==
    LET P == PermsFrom(<<>>, Len(pool), r)
    IN  [k \in 1..Len(P) |-> [j \in 1..r |-> pool[P[k][j]]]]

\* the condition of lines 142-148 on one permutation
RouteKept(perm, syms) ==
    /\ \A i \in 1..Len(syms) : perm[i] # syms[i]
    /\ perm[1].base = perm[Len(perm)].quote

\* get_all_routes (lines 136-150)
GetAllRoutes(syms) ==
    SelectSeq(permutations(syms \o ReversedSymbols(syms), Len(syms)),
              LAMBDA perm : RouteKept(perm, syms))

\* orderbooks = self.fetch_orderbooks() is complete; routes = self.get_all_routes()
ListRoutes ==
    /\ pc = "fetch"
    /\ fetch_idx > Len(fetch_pairs)
    /\ routes' = GetAllRoutes(symbols)
    /\ pc' = "evaluate"
    /\ UNCHANGED <<buildVars, dfsVars, orderbooks, fetch_idx, route_idx, evaluated,
                   profitable_arbitrage_routes>>
    /\ UNCHANGED edgeVars

\* [o[3] for o in orderbooks if o[0] == symbol and o[1] == exchange_id]
BooksOf(obs, symbol, exchange_id) ==
    LET hits == SelectSeq(obs, LAMBDA o : o.symbol = symbol /\ o.exchange_id = exchange_id)
    IN  [k \in 1..Len(hits) |-> hits[k].order_book]

\* get_orderbook_price_and_amount (lines 220-239): the best level of the
\* side, IndexError when the side is empty
BestLevel(orderbook, action) ==
    LET side == IF action = "buy" THEN orderbook.asks ELSE orderbook.bids
    IN  IF side = <<>> THEN [error |-> "IndexError", price |-> 0, amount |-> 0]
        ELSE [error |-> "none", price |-> side[1][1], amount |-> side[1][2]]

\* One leg of a route (lines 161-194); i counts from 0 as enumerate does.
Leg(obs, exchange_id, i, symbol) ==
    LET direct == BooksOf(obs, symbol, exchange_id)
        symbol_reversed == Reversed(symbol)
        reversed_books == BooksOf(obs, symbol_reversed, exchange_id)
        viaReversed == direct = <<>>
        action == IF viaReversed
                  THEN (IF i % 2 = 0 THEN "sell" ELSE "buy")
                  ELSE (IF i % 2 = 0 THEN "buy" ELSE "sell")
        books == IF viaReversed THEN reversed_books ELSE direct
    IN  IF books = <<>>
        THEN [error |-> "IndexError"]
        ELSE LET best == BestLevel(books[1], action)
             IN  IF best.error # "none" THEN [error |-> best.error]
                 ELSE [error |-> "none",
                       trade |-> [symbol |-> IF viaReversed THEN symbol_reversed ELSE symbol,
                                  exchange |-> exchange_id, action |-> action,
                                  price |-> best.price, amount |-> best.amount]]

\* the legs of a route up to the first one that raises
RECURSIVE Legs(_, _, _, _)
Legs(obs, exchange_id, route, i) ==
    IF i >= Len(route) THEN [error |-> "none", trades |-> <<>>]
    ELSE LET leg == Leg(obs, exchange_id, i, route[i + 1])
         IN  IF leg.error # "none" THEN [error |-> leg.error, trades |-> <<>>]
             ELSE LET rest == Legs(obs, exchange_id, route, i + 1)
                  IN  [error |-> rest.error, trades |-> <<leg.trade>> \o rest.trades]

\* the amount of the first leg, whatever the others offer
FirstTradeAmount(trades) == trades[1].amount

\* min([trade["amount"] for trade in trades])
MinTradeAmount(trades) ==
    CHOOSE a \in {trades[k].amount : k \in 1..Len(trades)} :
        \A k \in 1..Len(trades) : a <= trades[k].amount

\* the amount multiplied by the price on every leg
RECURSIVE TotalProfitMultiplied(_, _)
TotalProfitMultiplied(amount, trades) ==
    IF trades = <<>> THEN amount
    ELSE TotalProfitMultiplied(RMul(amount, RInt(trades[1].price)), Tail(trades))

\* lines 198-204: total_profit / price on a buy, total_profit * price otherwise
RECURSIVE TotalProfit(_, _)
TotalProfit(amount, trades) ==
    IF trades = <<>> THEN amount
    ELSE TotalProfit(IF trades[1].action = "buy"
                     THEN RDiv(amount, RInt(trades[1].price))
                     ELSE RMul(amount, RInt(trades[1].price)),
                     Tail(trades))

\* f"{profit:.2f}": the nearest hundredth, ties to the even one, in hundredths
Hundredths(x) ==
    LET q == (x[1] * 100) \div x[2]
        r == (x[1] * 100) % x[2]
    IN  IF 2 * r > x[2] THEN q + 1
        ELSE IF 2 * r = x[2] THEN q + (q % 2)
        ELSE q

\* a filter applied to the profit as it is displayed
DisplayedProfitable(profit) == Hundredths(profit) > 0

\* if profit > 0
Profitable(profit) == RPos(profit)

\* One iteration of the loop over routes (lines 157-216).
EvaluateRoute ==
    /\ pc = "evaluate"
    /\ route_idx <= Len(routes)
    /\ LET route == routes[route_idx]
       IN  IF ExchangeList = <<>>
           THEN \* next(iter(self.exchanges.items())) on an empty dict
                /\ evaluated' = Append(evaluated, [route |-> route, error |-> "StopIteration"])
                /\ pc' = "raised"
                /\ UNCHANGED profitable_arbitrage_routes
           ELSE
           LET legs == Legs(orderbooks, ExchangeList[1], route, 0)
               trades == legs.trades
           IN  IF legs.error # "none"
               THEN /\ evaluated' = Append(evaluated, [route |-> route, error |-> legs.error])
                    /\ pc' = "raised"
                    /\ UNCHANGED profitable_arbitrage_routes
               ELSE IF \E k \in 1..Len(trades) : trades[k].action = "buy" /\ trades[k].price = 0
               THEN /\ evaluated' = Append(evaluated, [route |-> route, error |-> "ZeroDivisionError"])
                    /\ pc' = "raised"
                    /\ UNCHANGED profitable_arbitrage_routes
               ELSE
               LET min_trade_amount == MinTradeAmount(trades)
                   total_profit == TotalProfit(RInt(min_trade_amount), trades)
                   profit == RSub(total_profit, RInt(min_trade_amount))
                   currency == route[Len(route)].quote
               IN  /\ evaluated' = Append(evaluated,
                          [route |-> route, error |-> "none", trades |-> trades,
                           min_trade_amount |-> min_trade_amount, profit |-> profit])
                   /\ profitable_arbitrage_routes' =
                          IF Profitable(profit)
                          THEN Append(profitable_arbitrage_routes,
                                   [route |-> route,
                                    profit |-> <<Hundredths(profit), currency>>,
                                    trades |-> trades])
                          ELSE profitable_arbitrage_routes
                   /\ UNCHANGED pc
    /\ route_idx' = route_idx + 1
    /\ UNCHANGED <<buildVars, dfsVars, orderbooks, fetch_idx, routes>>
    /\ UNCHANGED edgeVars

\* return profitable_arbitrage_routes (line 218)
ArbitrageReturn ==
    /\ pc = "evaluate"
    /\ route_idx > Len(routes)
    /\ pc' = "returned"
    /\ UNCHANGED <<buildVars, dfsVars, arbVars>>
    /\ UNCHANGED edgeVars

InitArb ==
    /\ symbols \in BuildSymbolLists
    /\ exchanges \in SUBSET Range(ExchangeIds)
    /\ market \in Markets(symbols, exchanges, ArbOutcomes, SecondaryOutcomes)
    /\ n_best = 1 /\ transaction_fee = 0 /\ slippage = 0
    /\ graph = <<>> /\ idx = 1 /\ log = <<>>
    /\ pc = "fetch"
    /\ NoDfs
    /\ NoArb
    /\ NoEdges

NextArb ==
    \/ FetchOrderbook
    \/ ListRoutes
    \/ EvaluateRoute
    \/ ArbitrageReturn

SpecArb == InitArb /\ [][NextArb]_vars

\* two venues quoting around 30,000, prices counted in hundreds so that the
\* products of two prices stay within 32-bit integers: the first
\* asks 300 (30,000) for one unit, the second bids 303 (30,300) for one unit
VenueA == Book(<<<<299, 1>>>>, <<<<300, 1>>>>)
VenueB == Book(<<<<303, 1>>>>, <<<<304, 1>>>>)
VenueOutcomes == { FetchFailed, VenueA, VenueB }

\* PriceData(exchange_ids, symbols) over the two venues
InitVenues ==
    /\ symbols \in BuildSymbolLists
    /\ exchanges \in SUBSET Range(ExchangeIds)
    /\ market \in Markets(symbols, exchanges, VenueOutcomes, VenueOutcomes)
    /\ n_best = 1 /\ transaction_fee = 0 /\ slippage = 0
    /\ graph = <<>> /\ idx = 1 /\ log = <<>>
    /\ pc = "fetch"
    /\ NoDfs
    /\ NoArb
    /\ NoEdges

SpecVenues == InitVenues /\ [][NextArb]_vars

\* ------------------------------------------------- models.py: build_edges
\* f"Crypto-{exchange_id}-{token}"
NodeKey(exchange_id, token) == <<"Crypto", exchange_id, token>>

\* Node.__init__
Node(network, exchange, token) ==
    [network |-> network, exchange |-> exchange, token |-> token, neighbors |-> <<>>]

\* Edge.__init__; src_node and dest_node are references to Node objects
Edge(src_node, dest_node, exchange, amount, price) ==
    [src_node |-> src_node, dest_node |-> dest_node, exchange |-> exchange,
     amount |-> amount, price |-> price]

\* a new Node for every snapshot, whatever the dict holds
NodeMissingAlways(d, key) == TRUE

\* if src_key not in nodes
NodeMissing(d, key) == ~DictHas(d, key)

\* lines 109-113 for one key: nodes[key] = Node("mainnet", exchange_id, token)
\* when the key is new; h is the pair of the dict and the objects
WithNode(h, exchange_id, token) ==
    IF NodeMissing(h.nodes, NodeKey(exchange_id, token))
    THEN [nodes |-> DictSet(h.nodes, NodeKey(exchange_id, token), Len(h.node_objects) + 1),
          node_objects |-> Append(h.node_objects, Node("mainnet", exchange_id, token))]
    ELSE h

\* Node.add_neighbor on the object a reference names
AddNeighbor(objects, node, edge) ==
    [objects EXCEPT ![node].neighbors = Append(@, edge)]

\* itertools.product(exchanges.keys(), symbols): the exchanges that initialised
edge_pairs == Product(ExchangeList, symbols)

\* One iteration of the loop of build_edges (lines 91-133).  A failed fetch
\* raises before anything is touched; calculate_weighted_average_and_volume
\* divides by the total size of a side (line 141) after the nodes were made.
BuildEdgesStep ==
    /\ pc = "edges"
    /\ idx <= Len(edge_pairs)
    /\ LET exchange_id == edge_pairs[idx][1]
           symbol == edge_pairs[idx][2]
           orderbook == market[<<exchange_id, symbol>>]
           bids == Take(orderbook.bids, n_best)
           asks == Take(orderbook.asks, n_best)
           h == WithNode(WithNode([nodes |-> nodes, node_objects |-> node_objects],
                                  exchange_id, symbol.base),
                         exchange_id, symbol.quote)
           src_node == DictGet(h.nodes, NodeKey(exchange_id, symbol.base))
           dest_node == DictGet(h.nodes, NodeKey(exchange_id, symbol.quote))
           bid_edge == Len(edge_objects) + 1
           ask_edge == Len(edge_objects) + 2
       IN  IF orderbook.failed
           THEN /\ log' = Append(log, "FetchError")
                /\ UNCHANGED edgeVars
           ELSE IF SumSize(bids) = 0 \/ SumSize(asks) = 0
           THEN /\ log' = Append(log, "ZeroDivisionError")
                /\ nodes' = h.nodes
                /\ node_objects' = h.node_objects
                /\ UNCHANGED <<edges, edge_objects>>
           ELSE /\ log' = Append(log, "none")
                /\ nodes' = h.nodes
                /\ edge_objects' = edge_objects \o
                       << Edge(src_node, dest_node, exchange_id, SumSize(bids),
                               Rat(WeightedSum(bids), SumSize(bids))),
                          Edge(dest_node, src_node, exchange_id, SumSize(asks),
                               Rat(WeightedSum(asks), SumSize(asks))) >>
                /\ node_objects' = AddNeighbor(AddNeighbor(h.node_objects, src_node, bid_edge),
                                               dest_node, ask_edge)
                /\ edges' = edges \o <<bid_edge, ask_edge>>
    /\ idx' = idx + 1
    /\ UNCHANGED <<symbols, exchanges, market, n_best, transaction_fee, slippage, graph, pc>>
    /\ UNCHANGED <<dfsVars, arbVars>>

\* return edges, nodes (line 135)
BuildEdgesReturn ==
    /\ pc = "edges"
    /\ idx > Len(edge_pairs)
    /\ pc' = "edges_built"
    /\ UNCHANGED <<buildVars, dfsVars, arbVars, edgeVars>>

\* build_edges(initialize_exchanges(exchange_ids), symbols, n_best)
InitEdges ==
    /\ symbols \in BuildSymbolLists
    /\ exchanges \in SUBSET Range(ExchangeIds)
    /\ market \in Markets(symbols, exchanges, ConstructOutcomes, ConstructOutcomes)
    /\ n_best \in 1..MaxNBest
    /\ transaction_fee = 0
    /\ slippage = 0
    /\ graph = <<>>
    /\ idx = 1
    /\ log = <<>>
    /\ pc = "edges"
    /\ NoDfs
    /\ NoArb
    /\ NoEdges

NextEdges == BuildEdgesStep \/ BuildEdgesReturn

SpecEdges == InitEdges /\ [][NextEdges]_vars

\* ------------------------------------------------ properties of build_graph
\* the edge list graph[src][dst], empty when a key is missing
EdgesAt(g, src, dst) ==
    IF DictHas(g, src) /\ DictHas(DictGet(g, src), dst)
    THEN DictGet(DictGet(g, src), dst)
    ELSE <<>>

\* the edges of one exchange and one side in graph[src][dst]
EdgesOf(g, src, dst, exchange_id, side) ==
    SelectSeq(EdgesAt(g, src, dst), LAMBDA t : t.exchange = exchange_id /\ t.type = side)

PairExchange(k) == exchange_symbols[k][1]
PairSymbol(k) == exchange_symbols[k][2]
PairBook(k) == market[<<PairExchange(k), PairSymbol(k)>>]
Processed == 1..(idx - 1)

PositiveLevels(levels) ==
    /\ levels # <<>>
    /\ \A i \in 1..Len(levels) : levels[i][1] > 0 /\ levels[i][2] > 0

\* a snapshot of an initialised exchange with positive prices and sizes
ValidSnapshot(k) ==
    /\ PairExchange(k) \in exchanges
    /\ ~PairBook(k).failed
    /\ PositiveLevels(Take(PairBook(k).bids, n_best))
    /\ PositiveLevels(Take(PairBook(k).asks, n_best))

\* the bad snapshots of C5: fetch failure, uninitialised exchange, no bids
BadSnapshot(k) ==
    \/ PairExchange(k) \notin exchanges
    \/ PairBook(k).failed
    \/ PairBook(k).bids = <<>>

BidEdges(k) ==
    EdgesOf(graph, PairSymbol(k).base, PairSymbol(k).quote, PairExchange(k), "bid")
AskEdges(k) ==
    EdgesOf(graph, PairSymbol(k).quote, PairSymbol(k).base, PairExchange(k), "ask")

\* C5: build_graph never aborts on a bad snapshot: the loop is never left by
\* an exception, a snapshot that failed to fetch, belongs to an uninitialised
\* exchange or has no bids adds no bid edge, and every valid snapshot dealt
\* with so far, before or after a bad one, has its bid edge and its ask edge.
C5_BadSnapshotNeverAborts ==
    /\ pc # "aborted"
    /\ \A k \in Processed :
        /\ BadSnapshot(k) => Len(BidEdges(k)) = 0
        /\ ValidSnapshot(k) => Len(BidEdges(k)) = 1 /\ Len(AskEdges(k)) = 1

\* C5 witness: a finished build with a snapshot without bids between two
\* valid snapshots.
C5_Witness ==
    /\ pc = "built"
    /\ \E k1, k2, k3 \in Processed :
        /\ k1 < k2 /\ k2 < k3
        /\ ValidSnapshot(k1) /\ ValidSnapshot(k3)
        /\ PairExchange(k2) \in exchanges
        /\ ~PairBook(k2).failed /\ PairBook(k2).bids = <<>>

\* the size-weighted average price of the top n_best levels of a side
Consolidated(levels) ==
    Rat(WeightedSum(Take(levels, n_best)), SumSize(Take(levels, n_best)))

\* C4: raising transaction_fee or raising slippage, the other held fixed,
\* never increases the adjusted price of a bid edge and never decreases the
\* adjusted price of an ask edge: each edge in the graph is compared with the
\* price the same snapshot gets under every higher rate in [0, 1).
C4_AdjustmentMonotone ==
    \A k \in Processed :
        (ValidSnapshot(k) /\ Len(BidEdges(k)) = 1 /\ Len(AskEdges(k)) = 1) =>
            LET bid == BidEdges(k)[1].price
                ask == AskEdges(k)[1].price
                rawBid == Consolidated(PairBook(k).bids)
                rawAsk == Consolidated(PairBook(k).asks)
            IN  /\ \A fee \in {r \in RatePcts : r > transaction_fee} :
                    /\ RLeq(AdjustBid(rawBid, fee, slippage), bid)
                    /\ RLeq(ask, AdjustAsk(rawAsk, fee, slippage))
                /\ \A slip \in {r \in RatePcts : r > slippage} :
                    /\ RLeq(AdjustBid(rawBid, transaction_fee, slip), bid)
                    /\ RLeq(ask, AdjustAsk(rawAsk, transaction_fee, slip))

\* C6: a snapshot with zero total size on one side is skipped for that side
\* only: with no bid size in the top n_best levels and healthy asks there is
\* no bid edge and there is the ask edge with the consolidated ask price and
\* volume, and the same with the sides exchanged.
C6_SkippedForThatSideOnly ==
    \A k \in Processed :
        (PairExchange(k) \in exchanges /\ ~PairBook(k).failed) =>
            LET bids == Take(PairBook(k).bids, n_best)
                asks == Take(PairBook(k).asks, n_best)
            IN  /\ (SumSize(bids) = 0 /\ PositiveLevels(asks)) =>
                    /\ Len(BidEdges(k)) = 0
                    /\ Len(AskEdges(k)) = 1
                    /\ AskEdges(k)[1].amount = SumSize(asks)
                    /\ AskEdges(k)[1].price =
                           AdjustAsk(Consolidated(PairBook(k).asks), transaction_fee, slippage)
                /\ (SumSize(asks) = 0 /\ PositiveLevels(bids)) =>
                    /\ Len(AskEdges(k)) = 0
                    /\ Len(BidEdges(k)) = 1
                    /\ BidEdges(k)[1].amount = SumSize(bids)
                    /\ BidEdges(k)[1].price =
                           AdjustBid(Consolidated(PairBook(k).bids), transaction_fee, slippage)

\* ------------------------------------------ properties of find_cyclic_paths
Searching == pc \in {"dfs", "returned", "raised"}

CycleValid(path) ==
    /\ Len(path) >= 1
    /\ path[1].source_currency = start_currency
    /\ path[Len(path)].destination_currency = start_currency
    /\ \A i \in 2..Len(path) : path[i].source_currency = path[i - 1].destination_currency
    /\ Len(path) <= max_depth
    /\ \A i, j \in 1..Len(path) :
        (i # j /\ path[i].destination_currency = path[j].destination_currency)
            => path[i].destination_currency = start_currency

C7_MissingStartIsNoRoute ==
    (Searching /\ max_depth >= 0 /\ ~DictHas(graph, start_currency)) =>
        /\ pc # "raised"
        /\ pc = "returned" => paths = <<>>

\* ------------------------------------ properties of the arbitrage evaluation
Evaluating == pc \in {"evaluate", "returned", "raised"}

\* the profit of a list of executed legs, from the legs alone: the smallest
\* amount carried through the legs, less that amount
RECURSIVE Carried(_, _)
Carried(x, trades) ==
    IF trades = <<>> THEN x
    ELSE Carried(IF trades[1].action = "buy"
                 THEN <<x[1], x[2] * trades[1].price>>
                 ELSE <<x[1] * trades[1].price, x[2]>>,
                 Tail(trades))

Smallest(trades) ==
    CHOOSE a \in {trades[k].amount : k \in 1..Len(trades)} :
        \A k \in 1..Len(trades) : a <= trades[k].amount

\* ending amount minus starting amount, as a pair <<numerator, denominator>>
RealizedProfit(trades) ==
    LET end == Carried(<<Smallest(trades), 1>>, trades)
    IN  <<end[1] - Smallest(trades) * end[2], end[2]>>

Completed == {k \in 1..Len(evaluated) : evaluated[k].error = "none"}

\* the routes evaluated so far whose unrounded profit is positive, in order
PositiveRoutes ==
    LET pos == SelectSeq(evaluated,
                   LAMBDA e : e.error = "none" /\ RealizedProfit(e.trades)[1] > 0)
    IN  [k \in 1..Len(pos) |-> pos[k].route]

\* C2: calculate_arbitrage_routes never holds an opportunity whose unrounded
\* profit is <= 0, and the test is made on the unrounded value: the
\* opportunities are exactly the evaluated routes of positive unrounded
\* profit, so a route of profit exactly 0 yields none and a route whose
\* positive profit displays as 0.00 yields one.
C2_ProfitableOnly ==
    Evaluating =>
        /\ \A k \in 1..Len(profitable_arbitrage_routes) :
            RealizedProfit(profitable_arbitrage_routes[k].trades)[1] > 0
        /\ [k \in 1..Len(profitable_arbitrage_routes) |->
               profitable_arbitrage_routes[k].route] = PositiveRoutes

\* C2 witness: a returned pass that evaluated a route of buy and sell legs at
\* the same price, of profit exactly 0, next to a route that did yield an
\* opportunity.
C2_Witness ==
    /\ pc = "returned"
    /\ profitable_arbitrage_routes # <<>>
    /\ \E k \in Completed :
        /\ RealizedProfit(evaluated[k].trades)[1] = 0
        /\ \E i, j \in 1..Len(evaluated[k].trades) :
            /\ evaluated[k].trades[i].action = "buy"
            /\ evaluated[k].trades[j].action = "sell"
            /\ evaluated[k].trades[i].price = evaluated[k].trades[j].price

\* C3: the bottleneck amount of every evaluated route is the minimum of the
\* amounts of its legs: it is the amount of a leg and no leg has a smaller one.
C3_BottleneckIsMinimum ==
    \A k \in Completed :
        /\ \E j \in 1..Len(evaluated[k].trades) :
            evaluated[k].trades[j].amount = evaluated[k].min_trade_amount
        /\ \A j \in 1..Len(evaluated[k].trades) :
            evaluated[k].min_trade_amount <= evaluated[k].trades[j].amount

\* C3 witness: an evaluated route whose smallest amount is not on its first leg.
C3_Witness ==
    \E k \in Completed :
        /\ evaluated[k].min_trade_amount < evaluated[k].trades[1].amount
        /\ Len(evaluated[k].trades) >= 2

\* the first exchange has an entry for the symbol or for its reverse
HasBook(symbol) ==
    \E k \in 1..Len(orderbooks) :
        /\ orderbooks[k].exchange_id = ExchangeList[1]
        /\ orderbooks[k].symbol \in {symbol, Reversed(symbol)}

MissingLeg(route) == \E i \in 1..Len(route) : ~HasBook(route[i])

\* every fetched book has a level on both sides
BooksTwoSided ==
    \A k \in 1..Len(orderbooks) :
        orderbooks[k].order_book.bids # <<>> /\ orderbooks[k].order_book.asks # <<>>

\* C8: a missing order book is absence, not failure: when the fetch of a pair
\* failed, so that a route has a leg with neither its symbol nor its reverse
\* in the batch of the exchange in use, calculate_arbitrage_routes does not
\* raise, yields no opportunity for that route and evaluates the other routes.
C8_MissingBookIsAbsence ==
    (Evaluating /\ ExchangeList # <<>> /\ BooksTwoSided) =>
        /\ pc # "raised"
        /\ \A k \in 1..Len(evaluated) :
            MissingLeg(evaluated[k].route) =>
                \A j \in 1..Len(profitable_arbitrage_routes) :
                    profitable_arbitrage_routes[j].route # evaluated[k].route
        /\ pc = "returned" => Len(evaluated) = Len(routes)

\* C9: the returned opportunities are in descending order of realized profit.
C9_SortedByProfit ==
    pc = "returned" =>
        \A i, j \in 1..Len(profitable_arbitrage_routes) :
            i < j =>
                LET a == RealizedProfit(profitable_arbitrage_routes[i].trades)
                    b == RealizedProfit(profitable_arbitrage_routes[j].trades)
                IN  b[1] * a[2] <= a[1] * b[2]

\* C10: every route of get_all_routes is a chained closed loop: the quote of
\* each symbol is the base of the next one and the base of the first symbol
\* is the quote of the last.
C10_RoutesAreChainedLoops ==
    Evaluating =>
        \A k \in 1..Len(routes) :
            /\ \A i \in 1..(Len(routes[k]) - 1) : routes[k][i].quote = routes[k][i + 1].base
            /\ routes[k][1].base = routes[k][Len(routes[k])].quote

\* the two venues both answered for BTC/USDT, the first with the ask of
\* 30,000 and the second with the bid of 30,300
TwoVenueScenario ==
    /\ ExchangeList = ExchangeIds
    /\ market[<<ExchangeIds[1], Symbol("BTC", "USDT")>>] = VenueA
    /\ market[<<ExchangeIds[2], Symbol("BTC", "USDT")>>] = VenueB

\* buy at 30,000 on the first venue, then sell at 30,300 on the second
\* (300 and 303 in hundreds)
CrossVenueTrades(trades) ==
    /\ Len(trades) = 2
    /\ trades[1].action = "buy" /\ trades[1].price = 300
    /\ trades[1].exchange = ExchangeIds[1]
    /\ trades[2].action = "sell" /\ trades[2].price = 303
    /\ trades[2].exchange = ExchangeIds[2]

\* C11: in the two-venue scenario (zero fee and slippage, n_best = 1) the
\* returned opportunities hold the two-leg cycle that buys BTC at 30,000 on
\* the first venue and sells it at 30,300 on the second, with a profit that is
\* positive and equal to (30300/30000 - 1) times the bottleneck amount.
C11_TwoVenueOpportunity ==
    (pc = "returned" /\ TwoVenueScenario) =>
        \E k \in 1..Len(profitable_arbitrage_routes) :
            LET trades == profitable_arbitrage_routes[k].trades
                profit == RealizedProfit(trades)
            IN  /\ CrossVenueTrades(trades)
                /\ profit[1] > 0
                /\ profit[1] * 300 = profit[2] * 3 * Smallest(trades)
\* C12: find_cyclic_paths terminates for every start_currency in the graph
\* and every max_depth, zero and negative included: every search that has
\* started is over from some point on, it is over by returning, and the
\* recursion is never deeper than the currencies it holds in visited,
\* whatever the depth counter does.
C12_Terminates ==
    /\ [](pc = "dfs" => (Len(stack) = Cardinality(visited)
                         /\ Cardinality(visited) <= Cardinality(Currencies)))
    /\ []((pc = "raised" /\ Searching) => ~DictHas(graph, start_currency))
    /\ <>[](pc # "dfs")

\* C12 witness: a search with a negative max_depth, whose depth counter never
\* reaches 0, has gone two calls deep and has returned cycles.
C12_Witness ==
    /\ pc = "returned"
    /\ max_depth < 0
    /\ DictHas(graph, start_currency)
    /\ paths # <<>>
\* the edges of the graph, each with its two currencies
GraphEdges ==
    UNION { UNION { { TradeWithCurrencies(graph[i][1], graph[i][2][j][1], graph[i][2][j][2][k]) :
                        k \in 1..Len(graph[i][2][j][2]) } :
                    j \in 1..Len(graph[i][2]) } :
            i \in 1..Len(graph) }

\* the chained sequences of n edges from start_currency that do not come
\* back to it before their last edge
RECURSIVE Chains(_)
Chains(n) ==
    IF n = 1
    THEN { <<e>> : e \in {x \in GraphEdges : x.source_currency = start_currency} }
    ELSE UNION { { Append(p, e) :
                     e \in {x \in GraphEdges :
                              x.source_currency = p[n - 1].destination_currency} } :
                 p \in {q \in Chains(n - 1) :
                          q[n - 1].destination_currency # start_currency} }

\* the simple cycles of n edges through start_currency
SimpleCycles(n) ==
    { p \in Chains(n) :
        /\ p[n].destination_currency = start_currency
        /\ \A i, j \in 1..n :
            i # j => p[i].destination_currency # p[j].destination_currency }

Occurrences(path) == Cardinality({k \in 1..Len(paths) : paths[k] = path})

\* the largest number of edges a simple cycle can have
LongestCycle == Cardinality(Currencies)

\* C13: find_cyclic_paths is complete and free of duplicates: each simple
\* cycle of the graph through start_currency of 1 to max_depth edges is in
\* the returned list exactly once, the cycles that differ only in the
\* exchange of a parallel edge included.
C13_CompleteNoDuplicates ==
    pc = "returned" =>
        /\ \A n \in 1..LongestCycle :
            n <= max_depth => \A p \in SimpleCycles(n) : Occurrences(p) = 1
        /\ \A k \in 1..Len(paths) : Occurrences(paths[k]) = 1

\* C13 witness: a returned search over parallel edges of two exchanges: four
\* or more cycles, one of them going out on one exchange and back on the other.
C13_Witness ==
    /\ pc = "returned"
    /\ max_depth >= 2
    /\ Len(paths) >= 4
    /\ \E k \in 1..Len(paths) :
        /\ Len(paths[k]) = 2
        /\ paths[k][1].exchange # paths[k][2].exchange
        /\ paths[k] \in SimpleCycles(2)
\* the place of an edge in the iteration order of its source currency: the
\* place of its destination among the keys of graph[source], then its place
\* in the list graph[source][destination]
DestinationRank(e) ==
    LET inner == DictGet(graph, e.source_currency)
    IN  CHOOSE j \in 1..Len(inner) : inner[j][1] = e.destination_currency

ListRank(e) ==
    LET trades == DictGet(DictGet(graph, e.source_currency), e.destination_currency)
    IN  CHOOSE k \in 1..Len(trades) :
            TradeWithCurrencies(e.source_currency, e.destination_currency, trades[k]) = e

ComesBefore(e, f) ==
    \/ DestinationRank(e) < DestinationRank(f)
    \/ DestinationRank(e) = DestinationRank(f) /\ ListRank(e) < ListRank(f)

\* the first position where two edge sequences differ
FirstDifference(p, q) ==
    CHOOSE d \in 1..Len(p) :
        /\ d <= Len(q)
        /\ p[d] # q[d]
        /\ \A i \in 1..(d - 1) : p[i] = q[i]

Differ(p, q) == \E d \in 1..Len(p) : d <= Len(q) /\ p[d] # q[d]

\* C14: the returned cycles are in depth-first left-to-right order: of two
\* returned cycles the one listed earlier has, at the first position where
\* their edges differ, the edge that comes earlier in the iteration order of
\* the source currency the two edges share.
C14_DepthFirstOrder ==
    pc = "returned" =>
        \A i, j \in 1..Len(paths) :
            i < j =>
                /\ Differ(paths[i], paths[j])
                /\ LET d == FirstDifference(paths[i], paths[j])
                   IN  /\ paths[i][d].source_currency = paths[j][d].source_currency
                       /\ ComesBefore(paths[i][d], paths[j][d])

\* C14 witness: a returned list with two cycles that part at their first edge
\* towards different currencies, two that part at their first edge on
\* parallel edges, and two that share the first edge and part at the second.
C14_Witness ==
    /\ pc = "returned"
    /\ \E i, j \in 1..Len(paths) :
        i < j /\ paths[i][1].destination_currency # paths[j][1].destination_currency
    /\ \E i, j \in 1..Len(paths) :
        /\ i < j /\ paths[i][1] # paths[j][1]
        /\ paths[i][1].destination_currency = paths[j][1].destination_currency
    /\ \E i, j \in 1..Len(paths) :
        i < j /\ paths[i][1] = paths[j][1] /\ paths[i][2] # paths[j][2]
\* the orderings of n distinct symbols out of the declared symbols and their
\* reversed forms
Orderings(syms) ==
    {p \in [1..Len(syms) -> Range(syms) \cup Range(ReversedSymbols(syms))] : Distinct(p)}

\* each symbol hands its quote to the base of the next, the last to the first
ClosedLoop(route) ==
    /\ \A i \in 1..(Len(route) - 1) : route[i].quote = route[i + 1].base
    /\ route[Len(route)].quote = route[1].base

\* C15: get_all_routes leaves out only the ordering that is the declared
\* order itself: every ordering of the declared symbols and their reversed
\* forms that is a closed loop and differs from the declared order in at
\* least one position is among the routes.
C15_OnlyDeclaredOrderExcluded ==
    Evaluating =>
        \A p \in Orderings(symbols) :
            (ClosedLoop(p) /\ p # symbols) => \E k \in 1..Len(routes) : routes[k] = p
\* the action a leg needs when the route gives the currency `gives` on the
\* order book of `booked`: a sale when it gives the base of the book, a
\* purchase when it gives its quote
DirectionAction(booked, gives) == IF gives = booked.base THEN "sell" ELSE "buy"

\* every leg of an evaluated route has the action of its direction, the
\* route taking each of its symbols from base to quote (forward) or each from
\* quote to base
LegsFollow(e, forward) ==
    \A i \in 1..Len(e.trades) :
        e.trades[i].action =
            DirectionAction(e.trades[i].symbol,
                            IF forward THEN e.route[i].base ELSE e.route[i].quote)

\* C16: the action of every leg of an evaluated route matches the direction
\* in which the route goes through the order book the leg was resolved to:
\* a sale when the leg gives the base of that book and gets its quote, a
\* purchase when it gives the quote and gets the base.  The route is read
\* from base to quote throughout or from quote to base throughout.
C16_ActionMatchesDirection ==
    \A k \in Completed : LegsFollow(evaluated[k], TRUE) \/ LegsFollow(evaluated[k], FALSE)
\* the best level of the side of the book a leg trades on: asks for a
\* purchase, bids for a sale
BestOfBook(trade) ==
    LET book == market[<<trade.exchange, trade.symbol>>]
    IN  IF trade.action = "buy" THEN book.asks[1] ELSE book.bids[1]

\* C17: for every evaluated route the profit is the bottleneck amount carried
\* through the legs in route order, divided by the price of a buy leg and
\* multiplied by the price of a sell leg, less the bottleneck amount; and the
\* price and amount of each leg are those of the best level of its order book.
C17_ProfitIsFoldOverLegs ==
    \A k \in Completed :
        LET e == evaluated[k]
            end == Carried(<<e.min_trade_amount, 1>>, e.trades)
        IN  /\ e.profit = Rat(end[1] - e.min_trade_amount * end[2], end[2])
            /\ \A i \in 1..Len(e.trades) :
                /\ e.trades[i].price = BestOfBook(e.trades[i])[1]
                /\ e.trades[i].amount = BestOfBook(e.trades[i])[2]

\* C17 witness: an evaluated route with a buy leg and a sell leg at different
\* prices, a leg that offers more than the bottleneck amount, and a leg on a
\* book that has a second level behind the best one.
C17_Witness ==
    \E k \in Completed :
        /\ \E i \in 1..Len(evaluated[k].trades) :
            evaluated[k].min_trade_amount < evaluated[k].trades[i].amount
        /\ evaluated[k].profit[1] # 0
        /\ \E i, j \in 1..Len(evaluated[k].trades) :
            /\ evaluated[k].trades[i].action = "buy"
            /\ evaluated[k].trades[j].action = "sell"
            /\ evaluated[k].trades[i].price # evaluated[k].trades[j].price
        /\ \E i \in 1..Len(evaluated[k].trades) :
            LET book == market[<<evaluated[k].trades[i].exchange, evaluated[k].trades[i].symbol>>]
            IN  Len(book.bids) > 1 /\ Len(book.asks) > 1
\* ------------------------------------------------ properties of build_edges
NodeRefs == {nodes[i][2] : i \in 1..Len(nodes)}

\* the pairs of edge_pairs the loop has dealt with whose fetch answered
FetchedPairs == {k \in 1..(idx - 1) : ~market[<<edge_pairs[k][1], edge_pairs[k][2]>>].failed}

\* the keys of the (exchange, currency) pairs seen in fetched snapshots
SeenKeys ==
    UNION { { NodeKey(edge_pairs[k][1], edge_pairs[k][2].base),
              NodeKey(edge_pairs[k][1], edge_pairs[k][2].quote) } : k \in FetchedPairs }

\* the edges of the edge list that leave a node, in the order of the list
EdgesFrom(node) == SelectSeq(edges, LAMBDA e : edge_objects[e].src_node = node)

\* C18: at every point between two snapshots of build_edges the node map has
\* exactly one Node for each (exchange, currency) seen, every Edge of the edge
\* list has its src_node and its dest_node among the values of the node map,
\* and the neighbors of each Node of the map are exactly the edges of the
\* edge list whose src_node is that Node.
C18_NodesAndEdgesConsistent ==
    pc \in {"edges", "edges_built"} =>
        /\ {nodes[i][1] : i \in 1..Len(nodes)} = SeenKeys
        /\ \A i, j \in 1..Len(nodes) :
            i # j => /\ nodes[i][1] # nodes[j][1]
                     /\ nodes[i][2] # nodes[j][2]
        /\ \A i \in 1..Len(nodes) :
            nodes[i][1] = NodeKey(node_objects[nodes[i][2]].exchange,
                                  node_objects[nodes[i][2]].token)
        /\ \A k \in 1..Len(edges) :
            /\ edge_objects[edges[k]].src_node \in NodeRefs
            /\ edge_objects[edges[k]].dest_node \in NodeRefs
        /\ \A r \in NodeRefs : node_objects[r].neighbors = EdgesFrom(r)

\* C18 witness: a finished build_edges in which a Node was reused by a second
\* snapshot and has two outgoing edges, and in which a snapshot was dropped.
C18_Witness ==
    /\ pc = "edges_built"
    /\ \E r \in NodeRefs : Len(node_objects[r].neighbors) >= 2
    /\ \E k \in 1..Len(log) : log[k] = "ZeroDivisionError"
    /\ Len(edges) >= 4
\* the loop of build_graph has just dropped a snapshot: its try block raised
Dropped ==
    /\ pc = "build"
    /\ Len(log') = Len(log) + 1
    /\ log'[Len(log')] \notin {"none", "not_initialized"}

\* C19: a snapshot that build_graph drops because processing it raised
\* leaves no trace: the graph after the snapshot is the graph before it, with
\* no new currency key, no empty edge list and no bid edge without its ask.
C19_DroppedLeavesNoTrace == [][Dropped => graph' = graph]_vars
\* the first of exchange_ids that initialised
FirstExchange ==
    ExchangeIds[CHOOSE i \in 1..Len(ExchangeIds) :
                    /\ ExchangeIds[i] \in exchanges
                    /\ \A j \in 1..(i - 1) : ExchangeIds[j] \notin exchanges]

\* the best level the first exchange answered for the book of a leg
FirstExchangeBest(trade) ==
    LET book == market[<<FirstExchange, trade.symbol>>]
    IN  IF trade.action = "buy" THEN book.asks[1] ELSE book.bids[1]

====
